---- MODULE Spec2Model ----
(***************************************************************************)
(* Model of the stickies application (src/src/app.rs): the AppState store  *)
(* (draft, todos, calculated), the effect channel, and the per-frame       *)
(* update = render ; apply_effects loop.                                   *)
(*                                                                         *)
(* Vec indices are 0-based as in the source; todos[i + 1] is the element   *)
(* the source calls todos[i].                                              *)
(***************************************************************************)
EXTENDS Naturals, Sequences, FiniteSets

VARIABLES
    draft,        \* AppState.draft
    todos,        \* AppState.todos : Vec<Todo>
    calculated,   \* AppState.calculated : HashMap<String, f32>
    effects_tx,   \* AppState.effects_tx: the channel this Sender belongs to
    effects_rx,   \* AppState.effects_rx: the channel this Receiver belongs to
    effects,      \* the content of the mpsc channel (effects_tx -> effects_rx)
    counter,      \* the usize persisted in egui memory under Id::new("counter")
    pc,           \* "new": constructed, before the first update; "idle": between two
                  \* calls of update; "apply": inside the loop of apply_effects;
                  \* "panicked": a send failed and unwrap panicked
    input,        \* history: the user input of the frame being processed
    frame,        \* history: the store as render read it in this frame
    sent,         \* history: the effects render sent in this frame, in send order
    applied,      \* history: the effects apply_effects has received in this frame, in order
    before,       \* history: the store just before the last received effect was applied
    deleted       \* history: the ids of the notes removed so far

vars == <<effects_tx, effects_rx, draft, todos, calculated, effects, counter, pc,
          input, frame, sent, applied, before, deleted>>

(***************************************************************************)
(* Bounds                                                                  *)
(***************************************************************************)
\* AddTodo gestures are offered only while the counter is below this cap.
MaxCounter == 2

\* The texts a text field can hold; "" is the empty String.
Labels == {"", "Feed doge"}

(***************************************************************************)
(* Data                                                                    *)
(***************************************************************************)
\* egui::Id::new(counter): a hash of the counter value, taken as collision
\* free on the counter values of the model.
IdNew(c) == [hash |-> c]

\* Todo::new
TodoNew(id, label) ==
    [id |-> id, label |-> label, checked |-> FALSE, edit_mode |-> FALSE]

\* HashMap::new()
EmptyMap == [n \in {} |-> 0]

\* HashMap::insert
MapInsert(m, name, value) ==
    [n \in DOMAIN m \cup {name} |-> IF n = name THEN value ELSE m[n]]

\* (mutant) Vec::pop in place of Vec::remove(index)
VecRemove_Last(v, index) == SubSeq(v, 1, Len(v) - 1)

\* Vec::remove(index), index < len: shifts the elements after it to the left
VecRemove(v, index) ==
    SubSeq(v, 1, index) \o SubSeq(v, index + 2, Len(v))

\* The store the effects act on: the serialized fields of AppState and the
\* counter of the egui context.
Store(d, t, c, n) == [draft |-> d, todos |-> t, calculated |-> c, counter |-> n]

Current == Store(draft, todos, calculated, counter)

\* Default for AppState (the counter slot of a fresh egui memory is 0)
DefaultStore == Store("Feed doge", <<>>, EmptyMap, 0)

(***************************************************************************)
(* Construction: Default, save and AppState::new                           *)
(***************************************************************************)
\* Default for AppState: `let (effects_tx, effects_rx) = mpsc::channel()`.  A
\* channel is named by the Default::default() call that made it, k counting
\* the calls that contribute to the one AppState value being constructed.
AppDefault(k) ==
    [effects_tx |-> k, effects_rx |-> k,
     draft |-> DefaultStore.draft,
     todos |-> DefaultStore.todos,
     calculated |-> DefaultStore.calculated]

\* save: eframe::set_value(storage, APP_KEY, self) writes the fields that are
\* not marked skip_serializing
Serialize(d, t, c) == [draft |-> d, todos |-> t, calculated |-> c]

\* (mutant) a deserialization that fills each skipped field from a default
\* instance of its own
Deserialize_DefaultPerField(value) ==
    [effects_tx |-> AppDefault(1).effects_tx,
     effects_rx |-> AppDefault(2).effects_rx,
     draft |-> value.draft, todos |-> value.todos, calculated |-> value.calculated]

\* eframe::get_value under #[serde(default)] on the struct: one default
\* instance is made, the stored fields overwrite its fields, and the fields
\* marked skip_deserializing keep the values of that instance
Deserialize(value) ==
    LET default == AppDefault(1)
    IN  [default EXCEPT !.draft = value.draft,
                        !.todos = value.todos,
                        !.calculated = value.calculated]

\* what the creation context offers: no storage, a storage without a
\* readable value under APP_KEY, or the value written by the last save
Storages == {"none", "empty", "saved"}

\* AppState::new(cc)
New(storage, value) ==
    IF storage = "none" THEN AppDefault(1)
    ELSE IF storage = "saved" THEN Deserialize(value)
    ELSE AppDefault(1)

\* Sender::send returns Err, and unwrap panics, only when the Receiver of the
\* Sender's channel has been dropped: self holds the Receiver of channel rx,
\* the Receiver of any other channel went with the instance that made it
SendFails(tx, rx) == tx # rx

(***************************************************************************)
(* enum Effect                                                             *)
(***************************************************************************)
Eff(kind, index, label, name, value) ==
    [kind |-> kind, index |-> index, label |-> label, name |-> name, value |-> value]

DraftTodo(text) == Eff("DraftTodo", 0, text, "", 0)
AddTodo(label) == Eff("AddTodo", 0, label, "", 0)
EditTodo(index) == Eff("EditTodo", index, "", "", 0)
SaveTodo(index, label) == Eff("SaveTodo", index, label, "", 0)
CheckTodo(index) == Eff("CheckTodo", index, "", "", 0)
DeleteTodo(index) == Eff("DeleteTodo", index, "", "", 0)
InsertCalculated(name, value) == Eff("InsertCalculated", 0, "", name, value)

(***************************************************************************)
(* apply_effects: the arms of the match, as functions of the store         *)
(***************************************************************************)
OnDraftTodo(s, text) == [s EXCEPT !.draft = text]

\* (mutant) AddTodo without `self.draft.clear()`
OnAddTodo_KeepsDraft(s, label) ==
    [s EXCEPT !.todos = Append(s.todos, TodoNew(IdNew(s.counter), label)),
              !.counter = s.counter + 1]

\* (mutant) AddTodo that ignores an empty label
OnAddTodo_RejectsEmpty(s, label) ==
    IF label = "" THEN s
    ELSE [s EXCEPT !.todos = Append(s.todos, TodoNew(IdNew(s.counter), label)),
                   !.counter = s.counter + 1,
                   !.draft = ""]

\* (mutant) AddTodo that makes the identifier from todos.len()
OnAddTodo_IdFromLen(s, label) ==
    [s EXCEPT !.todos = Append(s.todos, TodoNew(IdNew(Len(s.todos)), label)),
              !.counter = s.counter + 1,
              !.draft = ""]

\* (mutant) AddTodo with todos.insert(0, ..) in place of todos.push(..)
OnAddTodo_Front(s, label) ==
    [s EXCEPT !.todos = <<TodoNew(IdNew(s.counter), label)>> \o s.todos,
              !.counter = s.counter + 1,
              !.draft = ""]

OnAddTodo(s, label) ==
    [s EXCEPT !.todos = Append(s.todos, TodoNew(IdNew(s.counter), label)),
              !.counter = s.counter + 1,
              !.draft = ""]

OnEditTodo(s, index) ==
    IF index < Len(s.todos)
    THEN [s EXCEPT !.todos[index + 1].edit_mode = ~s.todos[index + 1].edit_mode]
    ELSE s

\* (mutant) SaveTodo that clamps the index to the last note
OnSaveTodo_Clamps(s, index, label) ==
    IF s.todos = <<>> THEN s
    ELSE LET n == IF index < Len(s.todos) THEN index + 1 ELSE Len(s.todos)
         IN  [s EXCEPT !.todos[n].label = label]

OnSaveTodo(s, index, label) ==
    IF index < Len(s.todos)
    THEN [s EXCEPT !.todos[index + 1].label = label]
    ELSE s

\* (mutant) CheckTodo that sets the flag instead of flipping it
OnCheckTodo_Sets(s, index) ==
    IF index < Len(s.todos)
    THEN [s EXCEPT !.todos[index + 1].checked = TRUE]
    ELSE s

OnCheckTodo(s, index) ==
    IF index < Len(s.todos)
    THEN [s EXCEPT !.todos[index + 1].checked = ~s.todos[index + 1].checked]
    ELSE s

OnDeleteTodo(s, index) ==
    IF index < Len(s.todos)
    THEN [s EXCEPT !.todos = VecRemove(s.todos, index)]
    ELSE s

OnInsertCalculated(s, name, value) ==
    [s EXCEPT !.calculated = MapInsert(s.calculated, name, value)]

\* match effect { ... }
ApplyEffect(s, e) ==
    CASE e.kind = "DraftTodo" -> OnDraftTodo(s, e.label)
      [] e.kind = "AddTodo" -> OnAddTodo(s, e.label)
      [] e.kind = "EditTodo" -> OnEditTodo(s, e.index)
      [] e.kind = "SaveTodo" -> OnSaveTodo(s, e.index, e.label)
      [] e.kind = "CheckTodo" -> OnCheckTodo(s, e.index)
      [] e.kind = "DeleteTodo" -> OnDeleteTodo(s, e.index)
      [] e.kind = "InsertCalculated" -> OnInsertCalculated(s, e.name, e.value)

\* (mutant) a receive that takes the newest message
TryRecv_Newest(q) == q[Len(q)]

\* effects_rx.try_recv(): the oldest message of the channel
TryRecv(q) == Head(q)

\* what try_recv leaves in the channel
AfterRecv(q) == Tail(q)

\* `while let Ok(effect) = try_recv()` ends when try_recv returns Err(Empty)
LoopEnds(q) == q = <<>>

\* effects_tx.send(e): appended behind the messages already in the channel
Send(q, es) == q \o es

(***************************************************************************)
(* The user input of one frame.  egui has one pointer and one keyboard     *)
(* focus: at most one widget is clicked in a frame, and the typed text and *)
(* the Enter key go to the one text field that has the focus.              *)
(***************************************************************************)
Input(click, click_index, focus, focus_index, text, enter) ==
    [click |-> click, click_index |-> click_index,
     focus |-> focus, focus_index |-> focus_index, text |-> text, enter |-> enter]

NoInput == Input("none", 0, "none", 0, "", FALSE)

\* the widgets render shows for store s that a pointer click can hit
Clicks(s) ==
    {<<"none", 0>>, <<"draft_save", 0>>}
        \cup ({"check", "button", "delete"} \X {i \in 0 .. MaxCounter : i < Len(s.todos)})

\* the text fields render shows for store s, each with the text it is given
Fields(s) ==
    {<<"draft", 0, s.draft>>}
        \cup {<<"label", i, s.todos[i + 1].label>> :
                i \in {j \in 0 .. MaxCounter : j < Len(s.todos) /\ s.todos[j + 1].edit_mode}}

\* what happens to the focused field: the text it holds after the typing of
\* the frame, and whether it lost the focus with Enter pressed (a field left
\* as it was is an input of no effect, the same as no focus)
Focus(s) ==
    {<<"none", 0, "", FALSE>>}
        \cup UNION {{<<f[1], f[2], t, e>> : t \in Labels \cup {f[3]}, e \in BOOLEAN}
                        \ {<<f[1], f[2], f[3], FALSE>>} : f \in Fields(s)}

\* the AddTodo effects the input makes render send
Adds(in) ==
    (IF in.focus = "draft" /\ in.enter THEN 1 ELSE 0)
        + (IF in.click = "draft_save" THEN 1 ELSE 0)

UserInputs(s) ==
    {in \in {Input(c[1], c[2], f[1], f[2], f[3], f[4]) : c \in Clicks(s), f \in Focus(s)} :
        s.counter + Adds(in) <= MaxCounter}

(***************************************************************************)
(* render                                                                  *)
(***************************************************************************)
\* ui.min_rect().width() of the draft row
DraftWidth == 3

\* ui.min_rect().width() of a note's button row: checkbox, Save or Edit, Delete
ActionsWidth(todo) == IF todo.edit_mode THEN 2 ELSE 1

\* container_height - ui.available_height(): a text field or a wrapped label
TextHeight(todo) == IF todo.edit_mode THEN 2 ELSE 1

\* (mutant) a measurement sent in every frame, cached or not
Measure_Always(s, id, value) == <<InsertCalculated(id, value)>>

\* `if let None = self.calculated.get(id) { send(InsertCalculated(id, value)) }`
Measure(s, id, value) ==
    IF id \in DOMAIN s.calculated THEN <<>> ELSE <<InsertCalculated(id, value)>>

\* (mutant) a draft row that does not clear local_draft after sending AddTodo
RenderDraft_KeepsLocal(s, in) ==
    LET typed == IF in.focus = "draft" THEN in.text ELSE s.draft
        enter == in.focus = "draft" /\ in.enter
        save == in.click = "draft_save"
    IN  (IF enter THEN <<AddTodo(typed)>> ELSE <<>>)
            \o (IF save THEN <<AddTodo(typed)>> ELSE <<>>)
            \o <<DraftTodo(typed)>>
            \o Measure(s, "draft_todo", DraftWidth)

\* the draft row
RenderDraft(s, in) ==
    LET typed == IF in.focus = "draft" THEN in.text ELSE s.draft
        enter == in.focus = "draft" /\ in.enter
        afterEnter == IF enter THEN "" ELSE typed
        save == in.click = "draft_save"
        afterSave == IF save THEN "" ELSE afterEnter
    IN  (IF enter THEN <<AddTodo(typed)>> ELSE <<>>)
            \o (IF save THEN <<AddTodo(afterEnter)>> ELSE <<>>)
            \o <<DraftTodo(afterSave)>>
            \o Measure(s, "draft_todo", DraftWidth)

\* the body of `for (index, todo) in self.todos.iter().enumerate()`
RenderTodo(s, in, index) ==
    LET todo == s.todos[index + 1]
        focused == in.focus = "label" /\ in.focus_index = index
        clicked(w) == in.click = w /\ in.click_index = index
        typed == IF focused THEN in.text ELSE todo.label
    IN  (IF clicked("check") THEN <<CheckTodo(index)>> ELSE <<>>)
            \o (IF clicked("button")
                THEN IF todo.edit_mode
                     THEN <<EditTodo(index), SaveTodo(index, todo.label)>>
                     ELSE <<EditTodo(index)>>
                ELSE <<>>)
            \o (IF clicked("delete") THEN <<DeleteTodo(index)>> ELSE <<>>)
            \o Measure(s, "todo_actions", ActionsWidth(todo))
            \o (IF todo.edit_mode
                THEN (IF focused /\ in.enter
                      THEN <<EditTodo(index), SaveTodo(index, typed)>>
                      ELSE <<>>)
                     \o <<SaveTodo(index, typed)>>
                ELSE <<>>)
            \o Measure(s, "todo_text", TextHeight(todo))

RECURSIVE RenderTodos(_, _, _)
RenderTodos(s, in, index) ==
    IF index >= Len(s.todos) THEN <<>>
    ELSE RenderTodo(s, in, index) \o RenderTodos(s, in, index + 1)

\* the effects one call of render sends, in send order
RenderEffects(s, in) == RenderDraft(s, in) \o RenderTodos(s, in, 0)

(***************************************************************************)
(* The state machine                                                       *)
(***************************************************************************)
Init ==
    /\ effects_tx = New("none", <<>>).effects_tx
    /\ effects_rx = New("none", <<>>).effects_rx
    /\ draft = New("none", <<>>).draft
    /\ todos = New("none", <<>>).todos
    /\ calculated = New("none", <<>>).calculated
    /\ counter = DefaultStore.counter
    /\ effects = <<>>
    /\ pc = "new"
    /\ input = NoInput
    /\ frame = DefaultStore
    /\ sent = <<>>
    /\ applied = <<>>
    /\ before = DefaultStore
    /\ deleted = {}

\* (mutant) a render that writes the typed draft text into self.draft itself
Render_CommitsDraft ==
    /\ pc \in {"new", "idle"}
    /\ \E in \in UserInputs(Current) :
        /\ effects' = Send(effects, RenderEffects(Current, in))
        /\ sent' = RenderEffects(Current, in)
        /\ input' = in
        /\ draft' = IF in.focus = "draft" THEN in.text ELSE draft
    /\ pc' = "apply"
    /\ frame' = Current
    /\ applied' = <<>>
    /\ before' = Current
    /\ UNCHANGED <<effects_tx, effects_rx, todos, calculated, counter, deleted>>

\* update, first half: self.render(ctx) under the input of this frame
Render ==
    /\ pc \in {"new", "idle"}
    /\ IF SendFails(effects_tx, effects_rx)
       THEN /\ pc' = "panicked"
            /\ UNCHANGED <<effects, input, frame, sent, applied, before>>
       ELSE /\ \E in \in UserInputs(Current) :
                /\ effects' = Send(effects, RenderEffects(Current, in))
                /\ sent' = RenderEffects(Current, in)
                /\ input' = in
            /\ pc' = "apply"
            /\ frame' = Current
            /\ applied' = <<>>
            /\ before' = Current
    /\ UNCHANGED <<effects_tx, effects_rx, draft, todos, calculated, counter, deleted>>

\* the loop of apply_effects receives an effect of kind k
Received(k) ==
    /\ pc = "apply"
    /\ ~LoopEnds(effects)
    /\ TryRecv(effects).kind = k

\* one iteration of the loop of apply_effects: the received effect leaves the
\* channel and its arm of the match acts on the store
Apply ==
    /\ LET e == TryRecv(effects)
           s == ApplyEffect(Current, e)
       IN  /\ draft' = s.draft
           /\ todos' = s.todos
           /\ calculated' = s.calculated
           /\ counter' = s.counter
           /\ applied' = Append(applied, e)
           /\ deleted' = deleted \cup ({todos[i].id : i \in 1 .. Len(todos)}
                                        \ {s.todos[i].id : i \in 1 .. Len(s.todos)})
    /\ effects' = AfterRecv(effects)
    /\ before' = Current
    /\ UNCHANGED <<effects_tx, effects_rx, pc, input, frame, sent>>

ApplyDraftTodo ==
    /\ Received("DraftTodo")
    /\ Apply

ApplyAddTodo ==
    /\ Received("AddTodo")
    /\ Apply

ApplyEditTodo ==
    /\ Received("EditTodo")
    /\ Apply

ApplySaveTodo ==
    /\ Received("SaveTodo")
    /\ Apply

ApplyCheckTodo ==
    /\ Received("CheckTodo")
    /\ Apply

ApplyDeleteTodo ==
    /\ Received("DeleteTodo")
    /\ Apply

ApplyInsertCalculated ==
    /\ Received("InsertCalculated")
    /\ Apply

\* try_recv returns Err: apply_effects and update return
Return ==
    /\ pc = "apply"
    /\ LoopEnds(effects)
    /\ pc' = "idle"
    /\ input' = NoInput
    /\ frame' = Current
    /\ sent' = <<>>
    /\ applied' = <<>>
    /\ before' = Current
    /\ UNCHANGED <<effects_tx, effects_rx, draft, todos, calculated, effects, counter, deleted>>

\* The framework calls save before shutdown and AppState::new at the next
\* start, with the storage of the creation context.  The egui memory is kept
\* in the same storage as the value save wrote, so the counter comes back
\* exactly when that value does; a start without it is a fresh program.
Launch ==
    /\ pc \in {"new", "idle"}
    /\ \E storage \in Storages :
          LET app == New(storage, Serialize(draft, todos, calculated))
              n == IF storage = "saved" THEN counter ELSE DefaultStore.counter
          IN  /\ effects_tx' = app.effects_tx
              /\ effects_rx' = app.effects_rx
              /\ draft' = app.draft
              /\ todos' = app.todos
              /\ calculated' = app.calculated
              /\ counter' = n
              /\ frame' = Store(app.draft, app.todos, app.calculated, n)
              /\ before' = Store(app.draft, app.todos, app.calculated, n)
              /\ deleted' = IF storage = "saved" THEN deleted ELSE {}
    /\ effects' = <<>>
    /\ pc' = "new"
    /\ input' = NoInput
    /\ sent' = <<>>
    /\ applied' = <<>>

Next ==
    \/ Launch
    \/ Render
    \/ ApplyDraftTodo
    \/ ApplyAddTodo
    \/ ApplyEditTodo
    \/ ApplySaveTodo
    \/ ApplyCheckTodo
    \/ ApplyDeleteTodo
    \/ ApplyInsertCalculated
    \/ Return

Spec == Init /\ [][Next]_vars

(***************************************************************************)
(* Vocabulary of the properties                                            *)
(***************************************************************************)
\* apply_effects has applied at least one effect of this frame
Acted == pc = "apply" /\ applied # <<>>

\* the effect applied last
LastEffect == applied[Len(applied)]

\* every effect of the frame has been applied
FrameDone == pc = "apply" /\ effects = <<>>

Ids(v) == {v[i].id : i \in 1 .. Len(v)}

\* the position (from 1) of the note with identifier id in v
Pos(v, id) == CHOOSE i \in 1 .. Len(v) : v[i].id = id

\* the indices a Vec of the model can be asked for, valid or not
Indices == 0 .. MaxCounter + 1

(***************************************************************************)
(* C1: an AddTodo with a non-empty label appends exactly one note, with    *)
(* that label, unchecked and not in edit mode, behind the unchanged        *)
(* earlier notes, and leaves the draft empty.                              *)
(***************************************************************************)
C1_AddAppendsOneNote ==
    (Acted /\ LastEffect.kind = "AddTodo" /\ LastEffect.label # "") =>
        /\ Len(todos) = Len(before.todos) + 1
        /\ \A i \in 1 .. Len(before.todos) : todos[i] = before.todos[i]
        /\ todos[Len(todos)].label = LastEffect.label
        /\ todos[Len(todos)].checked = FALSE
        /\ todos[Len(todos)].edit_mode = FALSE
        /\ draft = ""

C1_Witness ==
    /\ Acted /\ LastEffect.kind = "AddTodo" /\ LastEffect.label # ""
    /\ before.todos # <<>>
    /\ before.draft # ""

(***************************************************************************)
(* C2 as claimed: an AddTodo with the empty label leaves the note list     *)
(* unchanged.                                                              *)
(***************************************************************************)
C2_EmptyAddIsNoOp ==
    (Acted /\ LastEffect.kind = "AddTodo" /\ LastEffect.label = "") =>
        todos = before.todos

(***************************************************************************)
(* C2 amended: an AddTodo with the empty label is not rejected: it appends *)
(* one note with the empty label, unchecked and not in edit mode, with the *)
(* next identifier, behind the unchanged earlier notes, and leaves the     *)
(* draft empty.                                                            *)
(***************************************************************************)
C2_EmptyAddAppends ==
    (Acted /\ LastEffect.kind = "AddTodo" /\ LastEffect.label = "") =>
        /\ todos = before.todos
                    \o <<[id |-> IdNew(before.counter), label |-> "",
                          checked |-> FALSE, edit_mode |-> FALSE]>>
        /\ draft = ""

C2_Witness ==
    /\ Acted /\ LastEffect.kind = "AddTodo" /\ LastEffect.label = ""
    /\ before.todos # <<>>

C4_LabelStableOutsideEditMode ==
    FrameDone =>
        \A i \in 1 .. Len(frame.todos) : \A j \in 1 .. Len(todos) :
            (~frame.todos[i].edit_mode /\ todos[j].id = frame.todos[i].id)
                => todos[j].label = frame.todos[i].label

(***************************************************************************)
(* C5: CheckTodo(i) and EditTodo(i) at a valid position are involutions of *)
(* the store; one CheckTodo(i) flips the checked flag of note i and one    *)
(* EditTodo(i) flips its edit_mode flag, and neither changes anything else.*)
(***************************************************************************)
C5_TogglesAreInvolutions ==
    /\ \A i \in Indices : i < Len(todos) =>
          /\ OnCheckTodo(OnCheckTodo(Current, i), i) = Current
          /\ OnEditTodo(OnEditTodo(Current, i), i) = Current
          /\ OnCheckTodo(Current, i) # Current
          /\ OnEditTodo(Current, i) # Current
    /\ (Acted /\ LastEffect.kind \in {"CheckTodo", "EditTodo"}
              /\ LastEffect.index < Len(before.todos)) =>
          LET n == LastEffect.index + 1
              old == before.todos[n]
          IN  /\ Len(todos) = Len(before.todos)
              /\ \A j \in 1 .. Len(todos) : j # n => todos[j] = before.todos[j]
              /\ todos[n].id = old.id /\ todos[n].label = old.label
              /\ IF LastEffect.kind = "CheckTodo"
                 THEN todos[n].checked = ~old.checked /\ todos[n].edit_mode = old.edit_mode
                 ELSE todos[n].edit_mode = ~old.edit_mode /\ todos[n].checked = old.checked
              /\ draft = before.draft /\ calculated = before.calculated
              /\ counter = before.counter

C5_Witness ==
    /\ Acted /\ LastEffect.kind = "CheckTodo" /\ LastEffect.index < Len(before.todos)
    /\ Len(todos) >= 2
    /\ \E i \in 1 .. Len(todos) : todos[i].edit_mode

(***************************************************************************)
(* C6: EditTodo, SaveTodo, CheckTodo and DeleteTodo with an index at or    *)
(* past the end of the list change nothing: notes, draft and measurement   *)
(* cache stay as they were.                                                *)
(***************************************************************************)
C6_OutOfRangeIsNoOp ==
    /\ \A i \in Indices : i >= Len(todos) =>
          /\ OnEditTodo(Current, i) = Current
          /\ OnCheckTodo(Current, i) = Current
          /\ OnDeleteTodo(Current, i) = Current
          /\ \A t \in Labels : OnSaveTodo(Current, i, t) = Current
    /\ (Acted /\ LastEffect.kind \in {"EditTodo", "SaveTodo", "CheckTodo", "DeleteTodo"}
              /\ LastEffect.index >= Len(before.todos)) =>
          /\ todos = before.todos
          /\ draft = before.draft
          /\ calculated = before.calculated

C6_Witness ==
    /\ Acted /\ LastEffect.kind = "EditTodo"
    /\ LastEffect.index >= Len(before.todos)
    /\ before.todos # <<>>

(***************************************************************************)
(* C7: no two notes of the list share an identifier, and identifiers come  *)
(* from a counter that only grows: every identifier in the list was made   *)
(* from a counter value below the current one, the counter never goes      *)
(* down, and no note of the list has the identifier of a removed note.     *)
(***************************************************************************)
C7_IdentifiersUniqueAndFresh ==
    /\ \A i, j \in 1 .. Len(todos) : i # j => todos[i].id # todos[j].id
    /\ \A i \in 1 .. Len(todos) : \E c \in 0 .. MaxCounter :
          c < counter /\ todos[i].id = IdNew(c)
    /\ before.counter <= counter
    /\ Ids(todos) \cap deleted = {}

C7_Witness ==
    /\ Acted /\ LastEffect.kind = "AddTodo"
    /\ deleted # {}
    /\ Len(todos) >= 1

RECURSIVE ApplyAll(_, _)
ApplyAll(s, es) ==
    IF es = <<>> THEN s ELSE ApplyAll(ApplyEffect(s, Head(es)), Tail(es))

C9_FifoDrainedEachFrame ==
    /\ pc = "apply" =>
          /\ sent = applied \o effects
          /\ Current = ApplyAll(frame, applied)
    /\ pc \in {"new", "idle"} => effects = <<>>

C9_Witness ==
    /\ FrameDone
    /\ Len(applied) >= 4
    /\ \E i \in 1 .. Len(applied) : applied[i].kind = "DeleteTodo"

(***************************************************************************)
(* C10 as claimed: in a frame whose only gesture is a click on Delete of   *)
(* note n, once the effects are applied note n is gone and every other     *)
(* note is as it was when the frame was rendered.                          *)
(***************************************************************************)
C10_DeleteClickTouchesOnlyItsNote ==
    (FrameDone /\ input.click = "delete" /\ input.focus = "none") =>
        /\ Len(todos) + 1 = Len(frame.todos)
        /\ \A j \in 1 .. Len(todos) :
              todos[j] = frame.todos[IF j <= input.click_index THEN j ELSE j + 1]

(***************************************************************************)
(* C11: render does not change the committed state: the render step (the   *)
(* step that takes update into apply_effects) leaves the draft, the notes  *)
(* and the measurement cache as they are and only appends to the effect    *)
(* queue; within a run of the program (any step but a new start) draft,    *)
(* notes and cache change only in steps of the loop of apply_effects.      *)
(***************************************************************************)
C11_RenderIsReadOnly ==
    [][  /\ (pc # "apply" /\ pc' = "apply") =>
              /\ draft' = draft /\ todos' = todos /\ calculated' = calculated
              /\ Len(effects') >= Len(effects)
              /\ SubSeq(effects', 1, Len(effects)) = effects
         /\ ((draft' # draft \/ todos' # todos \/ calculated' # calculated) /\ pc' # "new") =>
              (pc = "apply" /\ pc' = "apply" /\ effects # <<>>)
      ]_vars

\* render has run, with notes in the list, on a draft field whose text
\* differs from the committed draft
C11_Witness ==
    /\ pc = "apply" /\ applied = <<>>
    /\ input.focus = "draft" /\ input.text # draft
    /\ todos # <<>>
    /\ Len(effects) >= 2

(***************************************************************************)
(* C12: render sends exactly one DraftTodo in a frame, behind every        *)
(* AddTodo of the frame; when the effects of the frame are applied the     *)
(* committed draft is the text the draft field held at the end of render   *)
(* (the typed text, or the empty text once an add gesture fired), so it is *)
(* empty after every frame with an add gesture.                            *)
(***************************************************************************)
\* the text of the draft field when render ends
DraftFieldAtEnd ==
    IF Adds(input) > 0 THEN ""
    ELSE IF input.focus = "draft" THEN input.text ELSE frame.draft

C12_DraftFollowsField ==
    /\ pc = "apply" =>
          /\ Cardinality({i \in 1 .. Len(sent) : sent[i].kind = "DraftTodo"}) = 1
          /\ Cardinality({i \in 1 .. Len(sent) : sent[i].kind = "AddTodo"}) = Adds(input)
          /\ \A i, j \in 1 .. Len(sent) :
                (sent[i].kind = "AddTodo" /\ sent[j].kind = "DraftTodo") => i < j
    /\ FrameDone =>
          /\ draft = DraftFieldAtEnd
          /\ Adds(input) > 0 => draft = ""

C12_Witness ==
    /\ FrameDone
    /\ Adds(input) = 1
    /\ input.focus = "draft" /\ input.text # ""
    /\ frame.draft # input.text

(***************************************************************************)
(* C13 as claimed: in a frame where a note shown in edit mode gets a save  *)
(* gesture (a click on its Save button, Enter with focus lost on its edit  *)
(* field, or both), once the effects are applied that note, if still in    *)
(* the list, is out of edit mode and its label is the text its edit field  *)
(* held in that frame.                                                     *)
(***************************************************************************)
\* the note at index i of the rendered list got a save gesture
SaveGesture(i) ==
    \/ input.click = "button" /\ input.click_index = i
    \/ input.focus = "label" /\ input.focus_index = i /\ input.enter

\* the text the edit field of the note at index i held in the frame
EditFieldText(i) ==
    IF input.focus = "label" /\ input.focus_index = i
    THEN input.text ELSE frame.todos[i + 1].label

C13_SaveGestureLeavesEditMode ==
    FrameDone =>
        \A i \in 0 .. MaxCounter : \A j \in 1 .. Len(todos) :
            (/\ i < Len(frame.todos)
             /\ frame.todos[i + 1].edit_mode
             /\ SaveGesture(i)
             /\ todos[j].id = frame.todos[i + 1].id)
                => (~todos[j].edit_mode /\ todos[j].label = EditFieldText(i))

(***************************************************************************)
(* C14 as claimed: a frame adds at most one note, however Enter on the     *)
(* draft field and a click on its Save button combine: when the effects    *)
(* are applied the list is at most one note longer than render showed it,  *)
(* and an added note has the text of the draft field as its label.         *)
(***************************************************************************)
\* the text of the draft field after the typing of the frame
DraftFieldText == IF input.focus = "draft" THEN input.text ELSE frame.draft

C14_AtMostOneAddPerFrame ==
    FrameDone =>
        /\ Len(todos) <= Len(frame.todos) + 1
        /\ \A j \in 1 .. Len(todos) :
              todos[j].id \notin Ids(frame.todos) => todos[j].label = DraftFieldText

(***************************************************************************)
(* C15: the measurement cache only grows and is stable: no effect removes  *)
(* a slot, and a slot that is in the cache when a frame is rendered has    *)
(* the same value throughout that frame and at its end (hence, frame after *)
(* frame, in every later frame).                                           *)
(***************************************************************************)
C15_CacheGrowsAndIsStable ==
    /\ DOMAIN before.calculated \subseteq DOMAIN calculated
    /\ DOMAIN frame.calculated \subseteq DOMAIN calculated
    /\ \A n \in DOMAIN frame.calculated : calculated[n] = frame.calculated[n]
    /\ pc = "apply" =>
          \A i \in 1 .. Len(sent) :
              sent[i].kind = "InsertCalculated" => sent[i].name \notin DOMAIN frame.calculated

\* a frame is done that rendered a note in edit mode, whose button row and
\* text field measure differently from the cached values
C15_Witness ==
    /\ FrameDone
    /\ {"draft_todo", "todo_actions", "todo_text"} \subseteq DOMAIN frame.calculated
    /\ \E i \in 1 .. Len(frame.todos) :
          /\ frame.todos[i].edit_mode
          /\ ActionsWidth(frame.todos[i]) # frame.calculated["todo_actions"]
          /\ TextHeight(frame.todos[i]) # frame.calculated["todo_text"]

(***************************************************************************)
(* C16: the sender and the receiver of the effect queue always belong to   *)
(* the same channel, in a freshly made default state and in a state loaded *)
(* from the storage alike, so no send of render fails and no unwrap        *)
(* panics.                                                                 *)
(***************************************************************************)
C16_SendNeverFails ==
    /\ effects_tx = effects_rx
    /\ pc # "panicked"

\* a state just loaded from the storage: constructed, not yet updated, and
\* holding notes and measurements, which no default state does
C16_Witness ==
    /\ pc = "new"
    /\ todos # <<>>
    /\ "todo_text" \in DOMAIN calculated
    /\ effects_tx = effects_rx

====
